---- MODULE Spec2Model ----
(***************************************************************************)
(* Model of the multipart form builder (DefaultFormBuilder) and of the     *)
(* image endpoints that drive it (CreateEditImage, CreateMultiEditImage,   *)
(* CreateVariImage).                                                       *)
(*                                                                         *)
(* Strings are sequences of one-character strings, so that escaping,       *)
(* path stripping and media-type parsing are computed character by         *)
(* character.  The sink is a sequence of tokens, one per line or chunk the *)
(* multipart writer emits.                                                 *)
(***************************************************************************)
EXTENDS Integers, Sequences, FiniteSets, TLC

\* ------------------------------------------------------------------ bounds
\* Number of builder calls (appends and Close) in one direct-use run.
MaxOps == 2
\* Number of calls in one run whose read or write fails.
MaxFaults == 1
\* Number of images in a MultiImageEditRequest.
MaxImages == 3
\* Length of the names and filenames of the escaping runs.
MaxLen == 2

\* -------------------------------------------------------------- characters
DQ == "\""
BS == "\\"
SL == "/"
SP == " "
SEMI == ";"
EQ == "="

\* Literal pieces of the Content-Disposition value (fmt.Sprintf's format).
FormDataName == "form-data; name="
FilenameAttr == "; filename="

\* ------------------------------------------------------------ escapeQuotes
RECURSIVE escapeQuotes(_)
escapeQuotesNoBackslash(s) ==
    IF s = <<>> THEN <<>>
    ELSE IF Head(s) = DQ THEN <<BS, DQ>> \o escapeQuotes(Tail(s))
    ELSE <<Head(s)>> \o escapeQuotes(Tail(s))

\* strings.NewReplacer("\\", "\\\\", `"`, "\\\"").Replace(s)
escapeQuotes(s) ==
    IF s = <<>> THEN <<>>
    ELSE IF Head(s) = BS THEN <<BS, BS>> \o escapeQuotes(Tail(s))
    ELSE IF Head(s) = DQ THEN <<BS, DQ>> \o escapeQuotes(Tail(s))
    ELSE <<Head(s)>> \o escapeQuotes(Tail(s))

\* ----------------------------------------------------------- filepath.Base
RECURSIVE StripTrailingSlashes(_)
StripTrailingSlashes(p) ==
    IF p # <<>> /\ p[Len(p)] = SL
    THEN StripTrailingSlashes(SubSeq(p, 1, Len(p) - 1))
    ELSE p

\* Index of the last separator of p, 0 when there is none.
LastSlash(p) ==
    IF \E i \in 1..Len(p) : p[i] = SL
    THEN CHOOSE i \in 1..Len(p) : p[i] = SL /\ \A j \in (i + 1)..Len(p) : p[j] # SL
    ELSE 0

\* filepath.Base on a slash-separated path: "" gives ".", a path of only
\* separators gives "/", otherwise the last element.
Base(path) ==
    IF path = <<>> THEN <<".">>
    ELSE LET p == StripTrailingSlashes(path)
             q == SubSeq(p, LastSlash(p) + 1, Len(p))
         IN  IF q = <<>> THEN <<SL>> ELSE q

\* ----------------------------------------------------- mime.ParseMediaType
Letters == {"a", "d", "e", "g", "i", "l", "m", "n", "o", "p", "q", "t", "v", "y"}
Upper == {"I", "P", "N", "G"}
TokenChars == Letters \cup Upper \cup {"1"}

ToLowerChar(c) ==
    CASE c = "I" -> "i"
      [] c = "P" -> "p"
      [] c = "N" -> "n"
      [] c = "G" -> "g"
      [] OTHER -> c

ToLower(s) == [i \in 1..Len(s) |-> ToLowerChar(s[i])]

\* Index of the first element of v satisfying no "skip" test, Len(v)+1 if none.
FirstNonSpace(v) ==
    IF \E i \in 1..Len(v) : v[i] # SP
    THEN CHOOSE i \in 1..Len(v) : v[i] # SP /\ \A j \in 1..(i - 1) : v[j] = SP
    ELSE Len(v) + 1

LastNonSpace(v) ==
    IF \E i \in 1..Len(v) : v[i] # SP
    THEN CHOOSE i \in 1..Len(v) : v[i] # SP /\ \A j \in (i + 1)..Len(v) : v[j] = SP
    ELSE 0

TrimLeft(v) == SubSeq(v, FirstNonSpace(v), Len(v))
TrimSpace(v) == SubSeq(v, FirstNonSpace(v), LastNonSpace(v))

\* strings.Cut(v, ";"): the part before the first semicolon.
CutBase(v) ==
    IF \E i \in 1..Len(v) : v[i] = SEMI
    THEN SubSeq(v, 1, (CHOOSE i \in 1..Len(v) :
                          v[i] = SEMI /\ \A j \in 1..(i - 1) : v[j] # SEMI) - 1)
    ELSE v

\* consumeToken: the longest prefix of token characters, and the rest.
consumeToken(v) ==
    LET n == IF \E i \in 1..Len(v) : v[i] \notin TokenChars
             THEN (CHOOSE i \in 1..Len(v) :
                      v[i] \notin TokenChars /\ \A j \in 1..(i - 1) : v[j] \in TokenChars) - 1
             ELSE Len(v)
    IN  [token |-> SubSeq(v, 1, n), rest |-> SubSeq(v, n + 1, Len(v))]

\* checkMediaTypeDisposition: token [ "/" token ] and nothing else.
checkMediaTypeDisposition(s) ==
    LET t == consumeToken(s)
    IN  IF t.token = <<>> THEN FALSE
        ELSE IF t.rest = <<>> THEN TRUE
        ELSE IF Head(t.rest) # SL THEN FALSE
        ELSE LET u == consumeToken(Tail(t.rest))
             IN  u.token # <<>> /\ u.rest = <<>>

\* consumeMediaParam: "; key = value" with an unquoted value; an empty param
\* means that nothing was consumed.
consumeMediaParam(v) ==
    LET none == [param |-> <<>>, value |-> <<>>, rest |-> v]
        r0 == TrimLeft(v)
    IN  IF r0 = <<>> \/ Head(r0) # SEMI THEN none
        ELSE LET k == consumeToken(TrimLeft(Tail(r0)))
                 r1 == TrimLeft(k.rest)
             IN  IF k.token = <<>> THEN none
                 ELSE IF r1 = <<>> \/ Head(r1) # EQ THEN none
                 ELSE LET r2 == TrimLeft(Tail(r1))
                          val == consumeToken(r2)
                      IN  IF val.token = <<>> THEN none
                          ELSE [param |-> ToLower(k.token), value |-> val.token,
                                rest |-> val.rest]

\* The parameter loop of ParseMediaType: TRUE when every parameter parses.
RECURSIVE ParamLoop(_, _)
ParamLoop(v, keys) ==
    LET w == TrimLeft(v)
    IN  IF w = <<>> THEN TRUE
        ELSE LET p == consumeMediaParam(w)
             IN  IF p.param = <<>> THEN TrimSpace(p.rest) = <<SEMI>>
                 ELSE IF p.param \in keys THEN FALSE
                 ELSE ParamLoop(p.rest, keys \cup {p.param})

ParseMediaTypeAcceptAll(v) == [err |-> FALSE, mediatype |-> TrimSpace(ToLower(CutBase(v)))]

\* mime.ParseMediaType(v): the lower-cased, trimmed media type and whether
\* parsing failed.
ParseMediaType(v) ==
    LET base == CutBase(v)
        mediatype == TrimSpace(ToLower(base))
    IN  IF ~checkMediaTypeDisposition(mediatype) THEN [err |-> TRUE, mediatype |-> <<>>]
        ELSE IF ~ParamLoop(SubSeq(v, Len(base) + 1, Len(v)), {})
             THEN [err |-> TRUE, mediatype |-> mediatype]
        ELSE [err |-> FALSE, mediatype |-> mediatype]

\* ---------------------------------------------------------------- the sink
\* One token per line or chunk written to the sink:
\*   crlf     "\r\n" closing the previous part's body
\*   delim    "--<boundary>\r\n"
\*   hdr      "<k>: <v>\r\n"
\*   blank    "\r\n" ending the header block
\*   data     the raw bytes of a part's body
\*   term     "--<boundary>--\r\n"
\*   partial  the bytes a failed write left behind
Tok(t, k, v) == [t |-> t, k |-> k, v |-> v]

ContentDisposition == "Content-Disposition"
ContentType == "Content-Type"
OctetStream == <<"application/octet-stream">>
ImagePng == <<"i", "m", "a", "g", "e", "/", "p", "n", "g">>

NilErr == "nil"
WriteErr == "write"
ReadErr == "read"
EmptyFilenameErr == "filename cannot be empty"

\* Outcomes of the reads and writes of one call: everything succeeds, the
\* write of the header block fails, the read of the source fails, the write
\* of the body fails, the write of the terminal boundary fails; a failed
\* write or copy leaves no byte (0) or some bytes (N) behind.
HdrFail == {"hdr0", "hdrN"}
ReadFail == {"rd0", "rdN"}
WriteFail == {"wr0", "wrN"}
Leaves(o) == IF o \in {"hdrN", "rdN", "wrN"} THEN <<Tok("partial", "", <<>>)>> ELSE <<>>

\* A multipart.Writer is [sink, lastpart, boundary]; lastpart is "nil", "ok"
\* (an open part) or "we" (a part whose last write failed).
Result(w, err) == [w |-> w, err |-> err]

\* Header lines in the order CreatePart writes them: sorted by key.
HeaderLines(cd, ct) ==
    <<Tok("hdr", ContentDisposition, cd)>>
    \o (IF ct = <<>> THEN <<>> ELSE <<Tok("hdr", ContentType, ct)>>)

CreatePartNoOrder(w, cd, ct, o) ==
    IF w.lastpart = "we" THEN Result(w, WriteErr)
    ELSE IF o \in HdrFail THEN Result([w EXCEPT !.sink = @ \o Leaves(o)], WriteErr)
    ELSE Result([w EXCEPT !.sink = <<Tok("delim", "", <<w.boundary>>)>>
                                    \o HeaderLines(cd, ct) \o <<Tok("blank", "", <<>>)>>
                                    \o (IF w.lastpart # "nil"
                                        THEN <<Tok("crlf", "", <<>>)>> ELSE <<>>)
                                    \o @,
                          !.lastpart = "ok"], NilErr)

\* multipart.Writer.CreatePart(h), h holding Content-Disposition cd and, when
\* ct is not empty, Content-Type ct.
CreatePart(w, cd, ct, o) ==
    IF w.lastpart = "we" THEN Result(w, WriteErr)
    ELSE IF o \in HdrFail THEN Result([w EXCEPT !.sink = @ \o Leaves(o)], WriteErr)
    ELSE Result([w EXCEPT !.sink = @ \o (IF w.lastpart # "nil"
                                          THEN <<Tok("crlf", "", <<>>)>> ELSE <<>>)
                                    \o <<Tok("delim", "", <<w.boundary>>)>>
                                    \o HeaderLines(cd, ct) \o <<Tok("blank", "", <<>>)>>,
                          !.lastpart = "ok"], NilErr)

\* io.Copy(fieldWriter, r) and part.Write: the body bytes go to the sink; a
\* failed write is remembered in the part (we).
Copy(w, data, o) ==
    IF o \in ReadFail THEN Result([w EXCEPT !.sink = @ \o Leaves(o)], ReadErr)
    ELSE IF o \in WriteFail
         THEN Result([w EXCEPT !.sink = @ \o Leaves(o), !.lastpart = "we"], WriteErr)
    ELSE Result([w EXCEPT !.sink = @ \o (IF data = <<>> THEN <<>>
                                          ELSE <<Tok("data", "", data)>>)], NilErr)

Then(r, data, o) == IF r.err # NilErr THEN r ELSE Copy(r.w, data, o)

FieldDisposition(fieldname) == <<FormDataName, DQ>> \o escapeQuotes(fieldname) \o <<DQ>>

FileDisposition(fieldname, filename) ==
    <<FormDataName, DQ>> \o escapeQuotes(fieldname)
    \o <<DQ, FilenameAttr, DQ>> \o escapeQuotes(filename) \o <<DQ>>

\* -------------------------------------------------- DefaultFormBuilder
\* NewFormBuilder(body): a writer on an empty sink with a fresh boundary.
NewFormBuilder(b) == [sink |-> <<>>, lastpart |-> "nil", boundary |-> b]

CreateFormFileReaderWithContentType(w, fieldname, data, filename, contentType, o) ==
    LET m == ParseMediaType(contentType)
    IN  Then(CreatePart(w, FileDisposition(fieldname, Base(filename)),
                        IF m.err THEN <<>> ELSE m.mediatype, o), data, o)

CreateFormFileReader(w, fieldname, data, filename, o) ==
    CreateFormFileReaderWithContentType(w, fieldname, data, filename, <<>>, o)

createFormFileNoCheck(w, fieldname, data, filename, o) ==
    Then(CreatePart(w, FileDisposition(fieldname, filename), OctetStream, o), data, o)

\* createFormFile: rejects an empty filename, else multipart's
\* CreateFormFile (Content-Type application/octet-stream) and io.Copy.
createFormFile(w, fieldname, data, filename, o) ==
    IF filename = <<>> THEN Result(w, EmptyFilenameErr)
    ELSE Then(CreatePart(w, FileDisposition(fieldname, filename), OctetStream, o), data, o)

\* CreateFormFile(fieldname, file): file is [name, data].
CreateFormFile(w, fieldname, file, o) ==
    createFormFile(w, fieldname, file.data, file.name, o)

\* WriteField: CreateFormField and one Write of the value.
WriteField(w, fieldname, value, o) ==
    Then(CreatePart(w, FieldDisposition(fieldname), <<>>, o), value, o)

CloseTwice(w, o) ==
    IF w.lastpart = "we" THEN Result(w, WriteErr)
    ELSE IF o \in WriteFail
         THEN Result([w EXCEPT !.sink = @ \o Leaves(o), !.lastpart = "nil"], WriteErr)
    ELSE Result([w EXCEPT !.sink = @ \o <<Tok("crlf", "", <<>>), Tok("term", "", <<w.boundary>>),
                                          Tok("crlf", "", <<>>), Tok("term", "", <<w.boundary>>)>>,
                          !.lastpart = "nil"], NilErr)

\* Close: multipart.Writer.Close closes the last part and writes
\* "\r\n--<boundary>--\r\n"; it keeps no record of having been called.
Close(w, o) ==
    IF w.lastpart = "we" THEN Result(w, WriteErr)
    ELSE IF o \in WriteFail
         THEN Result([w EXCEPT !.sink = @ \o Leaves(o), !.lastpart = "nil"], WriteErr)
    ELSE Result([w EXCEPT !.sink = @ \o <<Tok("crlf", "", <<>>), Tok("term", "", <<w.boundary>>)>>,
                          !.lastpart = "nil"], NilErr)

\* FormDataContentType: "multipart/form-data; boundary=" and the boundary.
FormDataContentType(w) == <<"multipart/form-data; boundary=", w.boundary>>

\* ------------------------------------------------------------------ state
VARIABLES
    sink,       \* the tokens written to the output sink (the body buffer)
    lastpart,   \* multipart.Writer.lastpart: "nil", "ok" or "we"
    boundary,   \* multipart.Writer.boundary, NoBuilder before construction
    calls,      \* history: the builder calls made, with their arguments and error
    faults,     \* history: the number of calls whose read or write was made to fail
    entry,      \* the endpoint method the caller invoked
    method,     \* the endpoint method whose body is running
    req,        \* its request
    pc,         \* its position: "idle", "form", "newRequest", "sendRequest", "done"
    ip,         \* the number of form statements of the method already executed
    http,       \* the requests built by newRequest
    sent,       \* the number of requests handed to sendRequest
    ret         \* the (response, err) the method returned

vars == <<sink, lastpart, boundary, calls, faults,
          entry, method, req, pc, ip, http, sent, ret>>

builderVars == <<sink, lastpart, boundary>>
endpointVars == <<entry, method, req, pc, ip, http, sent, ret>>

NoBuilder == "none"
Boundaries == {"b1", "b2"}

W == [sink |-> sink, lastpart |-> lastpart, boundary |-> boundary]

SetBuilder(w) ==
    /\ sink' = w.sink
    /\ lastpart' = w.lastpart
    /\ boundary' = w.boundary

Call(op, fieldname, filename, contentType, data, err) ==
    [op |-> op, fieldname |-> fieldname, filename |-> filename,
     contentType |-> contentType, data |-> data, err |-> err]

NoRequest == [images |-> 0, mask |-> FALSE, responseFormat |-> <<>>]
Running == [response |-> "zero", err |-> "running"]

\* ------------------------------------------------------------ input sets
FieldNames == {<<"a">>, <<DQ, BS>>}
FileNames == {<<>>, <<"d", SL, "f">>}
Values == {<<>>, <<"v">>}
FileData == {<<"x">>}
NotAValidType == <<"n", "o", "t", SL, "a", SL, "v", "a", "l", "i", "d", SL,
                   "t", "y", "p", "e", SEMI, SEMI, SEMI>>
ContentTypes == {ImagePng, NotAValidType}

\* The inputs of the single-call runs: every string of at most MaxLen
\* characters, and content types of each shape ParseMediaType tells apart.
Alphabet == {"a", DQ, BS, SL}
Strings == UNION {[1..n -> Alphabet] : n \in 0..MaxLen}
AllContentTypes ==
    { <<>>,
      ImagePng,
      NotAValidType,
      <<"I", "m", "a", "g", "e", SL, "P", "N", "G">>,
      <<"p", "n", "g">>,
      <<"i", "m", "a", "g", "e", SL>>,
      ImagePng \o <<SEMI>>,
      ImagePng \o <<SEMI, SP, "q", EQ, "1">>,
      ImagePng \o <<SEMI, "q", EQ, "1", SEMI, "Q", EQ, "1">>,
      ImagePng \o <<SEMI, SEMI>> }

AllOutcomes == {"ok"} \cup HdrFail \cup ReadFail \cup WriteFail

\* The outcomes a call with this body can have within the fault budget: a
\* write of the body fails only if there are bytes to write.
Outcomes(kinds, data) ==
    {o \in kinds : /\ o # "ok" => faults < MaxFaults
                   /\ o \in WriteFail => data # <<>>}

Fault(o) == IF o = "ok" THEN 0 ELSE 1

\* ------------------------------------------------ direct use of a builder
Init ==
    /\ boundary \in Boundaries
    /\ sink = <<>>
    /\ lastpart = "nil"
    /\ calls = <<>>
    /\ faults = 0
    /\ entry = "none"
    /\ method = "none"
    /\ req = NoRequest
    /\ pc = "idle"
    /\ ip = 0
    /\ http = <<>>
    /\ sent = 0
    /\ ret = Running

Record(c, o, r) ==
    /\ SetBuilder(r.w)
    /\ calls' = Append(calls, c)
    /\ faults' = faults + Fault(o)
    /\ UNCHANGED endpointVars

CallWriteField(names, values, kinds) ==
    \E fieldname \in names, value \in values :
      \E o \in Outcomes(kinds \ ReadFail, value) :
        LET r == WriteField(W, fieldname, value, o)
        IN  Record(Call("WriteField", fieldname, <<>>, <<>>, value, r.err), o, r)

CallCreateFormFileReader(names, files, kinds) ==
    \E fieldname \in names, filename \in files, data \in FileData :
      \E o \in Outcomes(kinds, data) :
        LET r == CreateFormFileReader(W, fieldname, data, filename, o)
        IN  Record(Call("CreateFormFileReader", fieldname, filename, <<>>, data, r.err), o, r)

CallCreateFormFileReaderWithContentType(names, files, cts, kinds) ==
    \E fieldname \in names, filename \in files, data \in FileData, contentType \in cts :
      \E o \in Outcomes(kinds, data) :
        LET r == CreateFormFileReaderWithContentType(W, fieldname, data, filename,
                                                     contentType, o)
        IN  Record(Call("CreateFormFileReaderWithContentType", fieldname, filename,
                        contentType, data, r.err), o, r)

CallCreateFormFile(names, files, kinds) ==
    \E fieldname \in names, filename \in files, data \in FileData :
      \E o \in Outcomes(kinds, data) :
        LET r == CreateFormFile(W, fieldname, [name |-> filename, data |-> data], o)
        IN  Record(Call("CreateFormFile", fieldname, filename, <<>>, data, r.err), o, r)

CallClose(kinds) ==
    \E o \in Outcomes(kinds \ (HdrFail \cup ReadFail), <<"t">>) :
      LET r == Close(W, o)
      IN  Record(Call("Close", <<>>, <<>>, <<>>, <<>>, r.err), o, r)

DoWriteField ==
    /\ Len(calls) < MaxOps
    /\ CallWriteField(FieldNames, Values, AllOutcomes)

DoCreateFormFileReader ==
    /\ Len(calls) < MaxOps
    /\ CallCreateFormFileReader(FieldNames, FileNames, AllOutcomes)

DoCreateFormFileReaderWithContentType ==
    /\ Len(calls) < MaxOps
    /\ CallCreateFormFileReaderWithContentType(FieldNames, FileNames, ContentTypes, AllOutcomes)

DoCreateFormFile ==
    /\ Len(calls) < MaxOps
    /\ CallCreateFormFile(FieldNames, FileNames, AllOutcomes)

DoClose ==
    /\ Len(calls) < MaxOps
    /\ CallClose(AllOutcomes)

Next ==
    \/ DoWriteField
    \/ DoCreateFormFileReader
    \/ DoCreateFormFileReaderWithContentType
    \/ DoCreateFormFile
    \/ DoClose

Spec == Init /\ [][Next]_vars

\* --------------------------------- one call on a fresh builder, any strings
OneWriteField ==
    /\ calls = <<>>
    /\ CallWriteField(Strings, Values, {"ok"})

OneCreateFormFileReader ==
    /\ calls = <<>>
    /\ CallCreateFormFileReader(Strings, Strings, {"ok"})

OneCreateFormFileReaderWithContentType ==
    /\ calls = <<>>
    /\ CallCreateFormFileReaderWithContentType(Strings, Strings, AllContentTypes, {"ok"})

OneCreateFormFile ==
    /\ calls = <<>>
    /\ CallCreateFormFile(Strings, Strings, {"ok"})

NextOne ==
    \/ OneWriteField
    \/ OneCreateFormFileReader
    \/ OneCreateFormFileReaderWithContentType
    \/ OneCreateFormFile

SpecOne == Init /\ [][NextOne]_vars

\* ------------------------------------------------------- endpoint methods
Digits == <<"1", "2", "3", "4", "5", "6">>
ImageData(i) == <<Digits[i]>>
MaskData == <<"m">>
Prompt == <<"a cat">>
Itoa == <<"2">>
Size == <<"256x256">>
ResponseFormats == {<<>>, <<"url">>}
EditsURL == "/images/edits"
VariationsURL == "/images/variations"

Stmt(op, fieldname, data, filename, contentType) ==
    [op |-> op, fieldname |-> fieldname, data |-> data, filename |-> filename,
     contentType |-> contentType]

Field(fieldname, value) == Stmt("WriteField", <<fieldname>>, value, <<>>, <<>>)
CloseStmt == Stmt("Close", <<>>, <<>>, <<>>, <<>>)

\* The builder calls of CreateEditImage, in statement order.
EditPlan(r) ==
    <<Stmt("CreateFormFileReaderWithContentType", <<"image">>, ImageData(1), <<>>, ImagePng)>>
    \o (IF r.mask THEN <<Stmt("CreateFormFileReader", <<"mask">>, MaskData, <<>>, <<>>)>>
        ELSE <<>>)
    \o <<Field("prompt", Prompt), Field("n", Itoa), Field("size", Size)>>
    \o (IF r.responseFormat # <<>> THEN <<Field("response_format", r.responseFormat)>>
        ELSE <<>>)
    \o <<CloseStmt>>

\* The builder calls of CreateMultiEditImage with two or more images.
MultiPlan(r) ==
    [i \in 1..r.images |->
        Stmt("CreateFormFileReaderWithContentType", <<"image[]">>, ImageData(i), <<>>, ImagePng)]
    \o <<Field("prompt", Prompt), Field("n", Itoa), Field("size", Size)>>
    \o (IF r.responseFormat # <<>> THEN <<Field("response_format", r.responseFormat)>>
        ELSE <<>>)
    \o <<CloseStmt>>

\* The builder calls of CreateVariImage.
VariPlan(r) ==
    <<Stmt("CreateFormFileReader", <<"image">>, ImageData(1), <<>>, <<>>),
      Field("n", Itoa), Field("size", Size),
      Field("response_format", r.responseFormat), CloseStmt>>

\* One builder call of an endpoint method.
Exec(w, st, o) ==
    CASE st.op = "CreateFormFileReaderWithContentType" ->
           CreateFormFileReaderWithContentType(w, st.fieldname, st.data, st.filename,
                                               st.contentType, o)
      [] st.op = "CreateFormFileReader" ->
           CreateFormFileReader(w, st.fieldname, st.data, st.filename, o)
      [] st.op = "WriteField" -> WriteField(w, st.fieldname, st.data, o)
      [] st.op = "Close" -> Close(w, o)

StmtOutcomes(st) ==
    Outcomes(IF st.op = "Close" THEN {"ok"} \cup WriteFail
             ELSE IF st.op = "WriteField" THEN AllOutcomes \ ReadFail
             ELSE AllOutcomes,
             IF st.op = "Close" THEN <<"t">> ELSE st.data)

InitEndpoint ==
    /\ boundary = NoBuilder
    /\ sink = <<>>
    /\ lastpart = "nil"
    /\ calls = <<>>
    /\ faults = 0
    /\ entry = "none"
    /\ method = "none"
    /\ req = NoRequest
    /\ pc = "idle"
    /\ ip = 0
    /\ http = <<>>
    /\ sent = 0
    /\ ret = Running

\* body := &bytes.Buffer{}; builder := c.createFormBuilder(body)
Enter(e, m, r) ==
    /\ \E b \in Boundaries : SetBuilder(NewFormBuilder(b))
    /\ entry' = e
    /\ method' = m
    /\ req' = r
    /\ pc' = "form"
    /\ UNCHANGED <<calls, faults, ip, http, sent, ret>>

CreateEditImage ==
    /\ pc = "idle"
    /\ \E mask \in BOOLEAN, rf \in ResponseFormats :
         Enter("CreateEditImage", "CreateEditImage",
               [images |-> 1, mask |-> mask, responseFormat |-> rf])

CreateMultiEditImageAlwaysBuilds ==
    /\ pc = "idle"
    /\ \E n \in 0..MaxImages, rf \in ResponseFormats :
         Enter("CreateMultiEditImage", "CreateMultiEditImage",
               [images |-> n, mask |-> FALSE, responseFormat |-> rf])

\* CreateMultiEditImage up to its first builder call: no image returns at
\* once, one image is handed to CreateEditImage.
CreateMultiEditImage ==
    /\ pc = "idle"
    /\ \E n \in 0..MaxImages, rf \in ResponseFormats :
         LET r == [images |-> n, mask |-> FALSE, responseFormat |-> rf]
         IN  IF n < 1
             THEN /\ entry' = "CreateMultiEditImage"
                  /\ method' = "CreateMultiEditImage"
                  /\ req' = r
                  /\ pc' = "done"
                  /\ ret' = [response |-> "zero", err |-> NilErr]
                  /\ UNCHANGED <<builderVars, calls, faults, ip, http, sent>>
             ELSE IF n = 1
             THEN Enter("CreateMultiEditImage", "CreateEditImage", r)
             ELSE Enter("CreateMultiEditImage", "CreateMultiEditImage", r)

CreateVariImage ==
    /\ pc = "idle"
    /\ \E rf \in ResponseFormats :
         Enter("CreateVariImage", "CreateVariImage",
               [images |-> 1, mask |-> FALSE, responseFormat |-> rf])

Plan ==
    CASE method = "CreateEditImage" -> EditPlan(req)
      [] method = "CreateMultiEditImage" -> MultiPlan(req)
      [] method = "CreateVariImage" -> VariPlan(req)
      [] OTHER -> <<>>

FormStepIgnoringErr ==
    /\ pc = "form"
    /\ LET st == Plan[ip + 1]
       IN  \E o \in StmtOutcomes(st) :
             LET r == Exec(W, st, o)
             IN  /\ SetBuilder(r.w)
                 /\ calls' = Append(calls, Call(st.op, st.fieldname, st.filename,
                                                st.contentType, st.data, r.err))
                 /\ faults' = faults + Fault(o)
                 /\ ip' = ip + 1
                 /\ pc' = IF ip + 1 = Len(Plan) THEN "newRequest" ELSE "form"
                 /\ UNCHANGED <<entry, method, req, http, sent, ret>>

\* The next builder call of the running method and its "if err != nil
\* { return }".
FormStep ==
    /\ pc = "form"
    /\ LET st == Plan[ip + 1]
       IN  \E o \in StmtOutcomes(st) :
             LET r == Exec(W, st, o)
             IN  /\ SetBuilder(r.w)
                 /\ calls' = Append(calls, Call(st.op, st.fieldname, st.filename,
                                                st.contentType, st.data, r.err))
                 /\ faults' = faults + Fault(o)
                 /\ ip' = ip + 1
                 /\ IF r.err # NilErr
                    THEN /\ pc' = "done"
                         /\ ret' = [response |-> "zero", err |-> r.err]
                    ELSE /\ pc' = IF ip + 1 = Len(Plan) THEN "newRequest" ELSE "form"
                         /\ ret' = ret
                 /\ UNCHANGED <<entry, method, req, http, sent>>

\* req, err := c.newRequest(..., withBody(body),
\*                          withContentType(builder.FormDataContentType()))
NewRequest ==
    /\ pc = "newRequest"
    /\ \E ok \in BOOLEAN :
         IF ok
         THEN /\ http' = Append(http,
                    [url |-> IF method = "CreateVariImage" THEN VariationsURL ELSE EditsURL,
                     body |-> sink,
                     contentType |-> FormDataContentType(W)])
              /\ pc' = "sendRequest"
              /\ ret' = ret
         ELSE /\ http' = http
              /\ pc' = "done"
              /\ ret' = [response |-> "zero", err |-> "newRequest"]
    /\ UNCHANGED <<builderVars, calls, faults, entry, method, req, ip, sent>>

\* err = c.sendRequest(req, &response); return
SendRequest ==
    /\ pc = "sendRequest"
    /\ sent' = sent + 1
    /\ \E ok \in BOOLEAN :
         ret' = IF ok THEN [response |-> "decoded", err |-> NilErr]
                ELSE [response |-> "zero", err |-> "sendRequest"]
    /\ pc' = "done"
    /\ UNCHANGED <<builderVars, calls, faults, entry, method, req, ip, http>>

NextEndpoint ==
    \/ CreateEditImage
    \/ CreateMultiEditImage
    \/ CreateVariImage
    \/ FormStep
    \/ NewRequest
    \/ SendRequest

SpecEndpoint == InitEndpoint /\ [][NextEndpoint]_vars

\* ------------------------------------------------ reading the sink back
\* The quoted string of v that starts right after an opening quote at i - 1:
\* \\ stands for \ and \" for ", the first bare " closes it.
RECURSIVE ReadQuoted(_, _, _)
ReadQuoted(v, i, acc) ==
    IF i > Len(v) THEN [ok |-> FALSE, val |-> acc, next |-> i]
    ELSE IF v[i] = DQ THEN [ok |-> TRUE, val |-> acc, next |-> i + 1]
    ELSE IF v[i] = BS
         THEN IF i + 1 > Len(v) THEN [ok |-> FALSE, val |-> acc, next |-> i]
              ELSE ReadQuoted(v, i + 2, Append(acc, v[i + 1]))
    ELSE ReadQuoted(v, i + 1, Append(acc, v[i]))

BadDisposition == [ok |-> FALSE, name |-> <<>>, hasFilename |-> FALSE, filename |-> <<>>]

\* A Content-Disposition value read as
\*   form-data; name="<quoted>" [ ; filename="<quoted>" ]   and nothing else.
DecodeDisposition(v) ==
    IF Len(v) < 3 \/ v[1] # FormDataName \/ v[2] # DQ THEN BadDisposition
    ELSE LET n == ReadQuoted(v, 3, <<>>)
         IN  IF ~n.ok THEN BadDisposition
             ELSE IF n.next = Len(v) + 1
                  THEN [ok |-> TRUE, name |-> n.val, hasFilename |-> FALSE, filename |-> <<>>]
             ELSE IF n.next + 1 > Len(v) \/ v[n.next] # FilenameAttr \/ v[n.next + 1] # DQ
                  THEN BadDisposition
             ELSE LET f == ReadQuoted(v, n.next + 2, <<>>)
                  IN  IF f.ok /\ f.next = Len(v) + 1
                      THEN [ok |-> TRUE, name |-> n.val, hasFilename |-> TRUE,
                            filename |-> f.val]
                      ELSE BadDisposition

IsDelim(s, i) == s[i].t = "delim"
DelimIdx(s) == SelectSeq([i \in 1..Len(s) |-> i], LAMBDA i : IsDelim(s, i))

\* Number of header lines that follow the delimiter at i.
RECURSIVE HeaderCount(_, _)
HeaderCount(s, j) ==
    IF j <= Len(s) /\ s[j].t = "hdr" THEN 1 + HeaderCount(s, j + 1) ELSE 0

\* The part that starts with the delimiter at i, as a multipart reader
\* using boundary b sees it.
DecodePart(s, i, b) ==
    LET n == HeaderCount(s, i + 1)
        hs == SubSeq(s, i + 1, i + n)
        j == i + n + 1
        cds == SelectSeq(hs, LAMBDA h : h.k = ContentDisposition)
        cts == SelectSeq(hs, LAMBDA h : h.k = ContentType)
        d == IF Len(cds) = 1 THEN DecodeDisposition(cds[1].v) ELSE BadDisposition
        hasBody == j + 1 <= Len(s) /\ s[j + 1].t = "data"
        after == IF hasBody THEN j + 2 ELSE j + 1
    IN  [ok |-> /\ s[i].v = <<b>>
                /\ d.ok
                /\ Len(cts) <= 1
                /\ j <= Len(s) /\ s[j].t = "blank"
                /\ (after <= Len(s) => s[after].t = "crlf"),
         name |-> d.name,
         hasFilename |-> d.hasFilename,
         filename |-> d.filename,
         hasContentType |-> Len(cts) = 1,
         contentType |-> IF Len(cts) = 1 THEN cts[1].v ELSE <<>>,
         body |-> IF hasBody THEN s[j + 1].v ELSE <<>>]

Parts == LET ds == DelimIdx(sink)
         IN  [k \in 1..Len(ds) |-> DecodePart(sink, ds[k], boundary)]

AppendOps == {"WriteField", "CreateFormFileReader", "CreateFormFileReaderWithContentType",
              "CreateFormFile"}
FileOps == AppendOps \ {"WriteField"}
ReaderOps == {"CreateFormFileReader", "CreateFormFileReaderWithContentType"}

Appends == SelectSeq(calls, LAMBDA c : c.op \in AppendOps)
AllSucceeded == \A i \in 1..Len(calls) : calls[i].err = NilErr
Special(s) == \E i \in 1..Len(s) : s[i] \in {DQ, BS}

\* The last call is a successful append of one of ops; LastPart is then the
\* part that call wrote.
LastCall == calls[Len(calls)]
LastPart == Parts[Len(Parts)]
JustAppended(ops) ==
    /\ calls # <<>>
    /\ LastCall.op \in ops
    /\ LastCall.err = NilErr
    /\ Len(Parts) > 0

ClosedOK(cs) == \E i \in 1..Len(cs) : cs[i].op = "Close" /\ cs[i].err = NilErr

\* ----------------------------------------------------------------- claims

\* C1: once Close has returned nil, every later call (a second Close or any
\* append) returns an error and writes nothing to the sink.
C1_RejectedAfterClose ==
    [][(ClosedOK(calls) /\ calls' # calls)
          => (calls'[Len(calls')].err # NilErr /\ sink' = sink)]_vars

\* C2: when every call so far returned nil, the sink holds exactly one part
\* per append call, in call order: part k carries the field name and the
\* body of the k-th append, and a filename attribute exactly when that call
\* appended a file.
C2_OnePartPerCallInOrder ==
    AllSucceeded =>
        LET ps == Parts
            as == Appends
        IN  /\ Len(ps) = Len(as)
            /\ \A k \in 1..Len(ps) :
                 /\ ps[k].ok
                 /\ ps[k].name = as[k].fieldname
                 /\ ps[k].body = as[k].data
                 /\ ps[k].hasFilename <=> (as[k].op \in FileOps)

\* Two appends under the same field name with different arguments, both in
\* the sink.
C2_Witness ==
    /\ AllSucceeded
    /\ Len(Appends) = 2
    /\ Appends[1].fieldname = Appends[2].fieldname
    /\ Appends[1].op = "CreateFormFileReaderWithContentType"
    /\ Appends[2].op = "WriteField"
    /\ Len(Parts) = 2

\* C3: a reader-based append with filename "" succeeds and its part's
\* Content-Disposition carries filename="" (present and empty).
C3_EmptyFilenameAttribute ==
    (JustAppended(ReaderOps) /\ LastCall.filename = <<>>)
        => (LastPart.ok /\ LastPart.hasFilename /\ LastPart.filename = <<>>)

\* C5: CreateFormFileReaderWithContentType never fails because of the content
\* type, and its part has a Content-Type header exactly for the well-formed
\* media types, holding the media type itself.
WellFormed ==
    { ImagePng,
      <<"I", "m", "a", "g", "e", SL, "P", "N", "G">>,
      <<"p", "n", "g">>,
      ImagePng \o <<SEMI>>,
      ImagePng \o <<SEMI, SP, "q", EQ, "1">> }
MediaTypeOf(ct) == IF ct = <<"p", "n", "g">> THEN ct ELSE ImagePng

C6_RoundTripOriginal ==
    (JustAppended(FileOps) /\ Special(LastCall.fieldname) /\ Special(LastCall.filename))
        => /\ LastPart.ok
           /\ LastPart.name = LastCall.fieldname
           /\ LastPart.filename = LastCall.filename

\* The filename an append puts in the header: the reader-based variants keep
\* the last path element, CreateFormFile passes the file's name on as it is.
Resolved(c) == IF c.op \in ReaderOps THEN Base(c.filename) ELSE c.filename

\* C6 (amended): for names and filenames containing a quote or a backslash,
\* the header's quoted strings are well formed and read back as the field
\* name and the resolved filename (filepath.Base(filename) for the
\* reader-based variants, the file's name for CreateFormFile).
C6_RoundTripResolved ==
    (JustAppended(FileOps) /\ (Special(LastCall.fieldname) \/ Special(LastCall.filename)))
        => /\ LastPart.ok
           /\ LastPart.name = LastCall.fieldname
           /\ LastPart.hasFilename
           /\ LastPart.filename = Resolved(LastCall)

C6_Witness ==
    /\ JustAppended(ReaderOps)
    /\ LastCall.fieldname = <<BS, DQ>>
    /\ LastCall.filename = <<SL, DQ>>
    /\ LastPart.ok
    /\ LastPart.filename = <<DQ>>

\* C7: CreateFormFile on a file whose name is empty returns the validation
\* error and changes neither the sink nor the builder, and the builder still
\* works: the appends made around such calls are all in the sink.
C7_Rejects ==
    (calls' # calls /\ calls'[Len(calls')].op = "CreateFormFile"
                    /\ calls'[Len(calls')].filename = <<>>)
        => /\ calls'[Len(calls')].err = EmptyFilenameErr
           /\ UNCHANGED builderVars

C7_StillUsable ==
    (\A i \in 1..Len(calls) : calls[i].err \in {NilErr, EmptyFilenameErr})
        => LET ps == Parts
           IN  /\ Len(ps) = Cardinality({i \in 1..Len(calls) :
                                           calls[i].op \in AppendOps /\ calls[i].err = NilErr})
               /\ \A k \in 1..Len(ps) : ps[k].ok
               /\ (calls # <<>> /\ LastCall.op = "Close" /\ LastCall.err = NilErr)
                     => sink[Len(sink)] = Tok("term", "", <<boundary>>)

C7_EmptyFilenameRejected == [][C7_Rejects]_vars /\ []C7_StillUsable

C7_Witness ==
    /\ Len(calls) = 2
    /\ calls[1].op = "CreateFormFile"
    /\ calls[1].err = EmptyFilenameErr
    /\ calls[2].op = "CreateFormFileReader"
    /\ calls[2].err = NilErr
    /\ Len(Parts) = 1

\* C9: the filename CreateFormFile writes is the last path element of the
\* file's name.
C9_FileHandleBaseName ==
    JustAppended({"CreateFormFile"})
        => (LastPart.hasFilename /\ LastPart.filename = Base(LastCall.filename))

\* C8: FormDataContentType returns the same value before and after every
\* call; after successful appends and one Close the sink ends with the one
\* terminal line "--<boundary>--" whose boundary is the one of that value and
\* of every part delimiter; before any Close the sink has no terminal line.
TermIdx == {i \in 1..Len(sink) : sink[i].t = "term"}
Closes == SelectSeq(calls, LAMBDA c : c.op = "Close")

C8_Terminated ==
    /\ (AllSucceeded /\ Len(Closes) = 1 /\ LastCall.op = "Close")
          => /\ TermIdx = {Len(sink)}
             /\ sink[Len(sink) - 1].t = "crlf"
             /\ sink[Len(sink)].v = <<FormDataContentType(W)[2]>>
             /\ \A i \in 1..Len(sink) :
                  sink[i].t = "delim" => sink[i].v = <<FormDataContentType(W)[2]>>
    /\ Len(Closes) = 0 => TermIdx = {}

C8_SameContentType ==
    /\ FormDataContentType(W)' = FormDataContentType(W)
    /\ Len(FormDataContentType(W)) = 2
    /\ FormDataContentType(W)[2] = boundary

C8_BoundaryFixedAndTerminal == [][C8_SameContentType]_vars /\ []C8_Terminated

C8_Witness ==
    /\ AllSucceeded
    /\ Len(calls) = 2
    /\ calls[1].op = "WriteField"
    /\ calls[2].op = "Close"
    /\ TermIdx = {Len(sink)}

\* C4: in the endpoint methods a request is built and sent only after every
\* builder call of the method, Close last, has returned nil; a call that
\* fails is the last builder call made, the method returns its error, and no
\* request is built or sent.
C4_NoPartialBodySent ==
    /\ (http # <<>> \/ sent > 0 \/ pc \in {"newRequest", "sendRequest"})
          => /\ Len(calls) = Len(Plan)
             /\ AllSucceeded
             /\ \A i \in 1..Len(calls) : calls[i].op = Plan[i].op
             /\ LastCall.op = "Close"
    /\ \A i \in 1..(Len(calls) - 1) : calls[i].err = NilErr
    /\ (calls # <<>> /\ LastCall.err # NilErr)
          => /\ pc = "done"
             /\ ret.err = LastCall.err
             /\ http = <<>>
             /\ sent = 0
    /\ sent <= Len(http)
    /\ \A i \in 1..Len(http) : http[i].body = sink /\ sink[Len(sink)].t = "term"

C4_Witness ==
    /\ pc = "done"
    /\ method = "CreateEditImage"
    /\ Len(calls) = 3
    /\ LastCall.op = "WriteField"
    /\ LastCall.err = WriteErr
    /\ Len(calls) < Len(Plan)
    /\ sent = 0

\* C10 as claimed: CreateMultiEditImage sends a request exactly when the
\* request holds an image and every builder call succeeds.
FormSucceeded == Len(calls) = Len(Plan) /\ AllSucceeded /\ calls # <<>>

C10_SendsIffOriginal ==
    (entry = "CreateMultiEditImage" /\ pc = "done")
        => (sent > 0 <=> (req.images >= 1 /\ FormSucceeded))

\* C10 (amended): CreateMultiEditImage sends a request exactly when the
\* request holds an image, every builder call succeeds and newRequest returns
\* no error; without images it makes no builder, sends nothing and returns
\* the zero response with a nil error; with one image it runs
\* CreateEditImage, whose only file field is named "image".
C10_MultiEdit ==
    entry = "CreateMultiEditImage"
        => /\ pc = "done"
              => (sent > 0 <=> (req.images >= 1 /\ FormSucceeded /\ http # <<>>))
           /\ req.images = 0
              => /\ pc = "done"
                 /\ boundary = NoBuilder
                 /\ calls = <<>> /\ sink = <<>> /\ http = <<>> /\ sent = 0
                 /\ ret = [response |-> "zero", err |-> NilErr]
           /\ req.images >= 1 => boundary # NoBuilder
           /\ req.images = 1
              => /\ method = "CreateEditImage"
                 /\ \A i \in 1..Len(calls) :
                      calls[i].op \in FileOps => (i = 1 /\ calls[i].fieldname = <<"image">>)
                 /\ AllSucceeded => \A k \in 1..Len(Parts) :
                      Parts[k].hasFilename => (k = 1 /\ Parts[k].name = <<"image">>)
           /\ req.images > 1
              => /\ method = "CreateMultiEditImage"
                 /\ \A i \in 1..Len(calls) :
                      calls[i].op \in FileOps => calls[i].fieldname = <<"image[]">>

C10_Witness ==
    /\ entry = "CreateMultiEditImage"
    /\ pc = "done"
    /\ req.images = 0
    /\ ret = [response |-> "zero", err |-> NilErr]
    /\ sent = 0

====
